---- MODULE Spec2Model ----
(***************************************************************************)
(* Model of src/main/views/webContentEvents.ts: the WebContentsEventManager *)
(* of the desktop client.  The manager owns three pieces of state          *)
(* (customLogins, listeners, popupWindow) and installs three handlers on   *)
(* every registered web contents (will-navigate, did-start-navigation and  *)
(* the window-open handler).                                               *)
(*                                                                         *)
(* The host (Electron) is modelled by what it keeps for the manager: the   *)
(* handlers attached to each web contents and the popup windows that have  *)
(* been created and not yet closed.  The URL classifier (common/utils/url) *)
(* is an external collaborator: the result of each of its predicates is an *)
(* input of the event, drawn from BOOLEAN.                                 *)
(*                                                                         *)
(* Every handler runs to completion on the single event loop.  ev records  *)
(* the handler that just ran, its inputs and what it did; the host then    *)
(* consumes the result (HostReturn) before the next event is dispatched.   *)
(***************************************************************************)
EXTENDS Integers, Sequences, FiniteSets, TLC

\* ------------------------------------------------------------------ bounds
NumViews == 1      \* embedded views (web contents 1..NumViews)
MaxPopups == 2     \* popup windows created in one run
MaxRegs == 2       \* registrations (closures created) in one run
MaxShows == 2      \* times one popup window is revealed

\* --------------------------------------------------------------- universe
Views == 1..NumViews
WindowIds == 1..MaxPopups
\* the web contents of popup window w
PopupContents(w) == NumViews + w
Contents == 1..(NumViews + MaxPopups)

Null == "undefined"
Server == "serverURL"

\* const scheme = protocols[0].schemes[0]
Scheme == "mattermost"

\* a string that urlUtils.parseURL cannot parse, and what parseURL returns for it
BadURL == [protocol |-> "not a url", pathname |-> << >>]
NullURL == [protocol |-> Null, pathname |-> << >>]

\* the URLs of the model: (protocol, pathname as its segments; a trailing
\* "" segment is a trailing slash)
URLs ==
  { [protocol |-> "https:", pathname |-> <<"plugins", "oauth", "start">>],
    [protocol |-> "https:", pathname |-> <<"help", "about">>],
    [protocol |-> "https:", pathname |-> <<"api", "v4", "public", "files", "a">>],
    [protocol |-> "http:", pathname |-> <<"api", "v3", "image">>],
    [protocol |-> "mattermost:", pathname |-> <<"team", "channels">>],
    [protocol |-> "devtools:", pathname |-> <<"devtools">>],
    [protocol |-> "ftp:", pathname |-> <<"pub">>],
    [protocol |-> "https:", pathname |-> <<"plugins", "a b">>],
    [protocol |-> "ftp:", pathname |-> <<"a b">>],
    [protocol |-> "mailto:", pathname |-> <<"a@b.c">>] }

\* urlUtils.isValidURI(details.url): the URLs of the model it rejects
isValidURI(url) == \A i \in DOMAIN url.pathname : url.pathname[i] # "a b"

\* the URLs a web contents navigates to (the host hands the handlers a URL it
\* has parsed itself: parseURL(url)! in the navigation handlers)
NavURLs == {u \in URLs : u.pathname \in {<<"plugins", "oauth", "start">>, <<"a@b.c">>}}

\* the URLs a popup window can show
PageURLs == {u \in URLs : u.pathname[1] \in {"plugins", "team", "help"} /\ isValidURI(u)}

\* urlUtils.parseURL as the handlers use it: undefined for a non-URL
parseURL(url) == IF url = BadURL THEN NullURL ELSE url

\* --------------------------------------------------------------- variables
VARIABLES
  customLogins,        \* Record<number, CustomLogin>: content id -> [inProgress]
  listeners,           \* Record<number, () => void>: content id -> the registration whose closure it holds
  popupWindow,         \* the shared popup reference: 0 (undefined) or a window id
  windows,             \* host: the popup windows created and not yet closed
  created,             \* host: number of BrowserWindows created so far
  regs,                \* number of registrations so far: registration k creates closure k
  willNavigate,        \* host: will-navigate handlers attached to each web contents
  didStartNavigation,  \* host: did-start-navigation handlers attached
  windowOpenHandler,   \* host: the window-open handler of each web contents
  renderProcessGone,   \* host: pending once('render-process-gone') handlers
  callerListeners,     \* host: caller-supplied handler bundles attached to each web contents
  destroyed,           \* host: the views it has torn down
  observed,            \* history: the login flow as the navigations seen on each web contents tell it
  ev                   \* the handler that just ran, with its inputs and effects

vars == <<customLogins, listeners, popupWindow, windows, created, regs,
          willNavigate, didStartNavigation, windowOpenHandler,
          renderProcessGone, callerListeners, destroyed, observed, ev>>

Idle == [kind |-> "idle"]
NoHandler == 0
DenyNewWindowHandler == -1

\* a web contents the host still has: a view until the host tears it down, the
\* web contents of a popup as long as its window
Alive(c) == c \in Views \ destroyed \/ \E w \in DOMAIN windows : PopupContents(w) = c

\* obj[id] = value on a Record<number, ...>
Put(obj, id, value) == [i \in DOMAIN obj \cup {id} |-> IF i = id THEN value ELSE obj[i]]

Init ==
  /\ customLogins = << >>
  /\ listeners = << >>
  /\ popupWindow = 0
  /\ windows = << >>
  /\ created = 0
  /\ regs = 0
  /\ willNavigate = [c \in Contents |-> {}]
  /\ didStartNavigation = [c \in Contents |-> {}]
  /\ windowOpenHandler = [c \in Contents |-> NoHandler]
  /\ renderProcessGone = [c \in Contents |-> {}]
  /\ callerListeners = [c \in Contents |-> 0]
  /\ destroyed = {}
  /\ observed = [c \in Contents |-> "none"]
  /\ ev = Idle

\* ------------------------------------------------------------ will-navigate
\* isTrustedPopupWindow: BrowserWindow.fromWebContents(webContents) === this.popupWindow
isTrustedPopupWindow(c, popup) ==
  IF popup = 0 THEN FALSE ELSE PopupContents(popup) = c

\* if (serverURL && (isTeamUrl || isAdminUrl || isTrustedPopupWindow(sender))): with
\* one disjunct dropped, or the popup trusted without a server
AllowsServerPagesNoTeam(serverURL, isTeamUrl, isAdminUrl, trustedPopup) ==
  serverURL # Null /\ (isAdminUrl \/ trustedPopup)

AllowsServerPagesPopupAnywhere(serverURL, isTeamUrl, isAdminUrl, trustedPopup) ==
  (serverURL # Null /\ (isTeamUrl \/ isAdminUrl)) \/ trustedPopup

\* if (serverURL && (isTeamUrl || isAdminUrl || isTrustedPopupWindow(sender)))
AllowsServerPages(serverURL, isTeamUrl, isAdminUrl, trustedPopup) ==
  serverURL # Null /\ (isTeamUrl \/ isAdminUrl \/ trustedPopup)

\* if (serverURL && callID && isCallsPopOutURL(...)) without the call id
AllowsCallsPopOutAnyCall(serverURL, callID, isCallsPopOutURL) ==
  serverURL # Null /\ isCallsPopOutURL

\* if (serverURL && callID && urlUtils.isCallsPopOutURL(serverURL, parsedURL, callID))
AllowsCallsPopOut(serverURL, callID, isCallsPopOutURL) ==
  serverURL # Null /\ callID # Null /\ isCallsPopOutURL

\* the decision of the will-navigate handler: rules in order, first match wins
WillNavigateRule(serverURL, isTeamUrl, isAdminUrl, trustedPopup, isChannelExportUrl, isCustomLoginURL, protocol, inProgress, callID, isCallsPopOutURL) ==
  IF AllowsServerPages(serverURL, isTeamUrl, isAdminUrl, trustedPopup) THEN "team"
  ELSE IF serverURL # Null /\ isChannelExportUrl THEN "channelExport"
  ELSE IF serverURL # Null /\ isCustomLoginURL THEN "customLogin"
  ELSE IF protocol = "mailto:" THEN "mailto"
  ELSE IF inProgress THEN "inProgress"
  ELSE IF AllowsCallsPopOut(serverURL, callID, isCallsPopOutURL) THEN "callsPopOut"
  ELSE "prevent"

\* a handler that never finds a login in progress
InProgressOfNever(logins, c) == FALSE

\* this.customLogins[contentID]?.inProgress
InProgressOf(logins, c) == IF c \in DOMAIN logins THEN logins[c].inProgress ELSE FALSE

WillNavigate(c, url, serverURL, isTeamUrl, isAdminUrl, isChannelExportUrl, isCustomLoginURL, callID, isCallsPopOutURL) ==
  /\ ev = Idle
  /\ Alive(c)
  /\ willNavigate[c] # {}
  /\ LET rule == WillNavigateRule(serverURL, isTeamUrl, isAdminUrl,
                                  isTrustedPopupWindow(c, popupWindow),
                                  isChannelExportUrl, isCustomLoginURL,
                                  parseURL(url).protocol, InProgressOf(customLogins, c),
                                  callID, isCallsPopOutURL)
     IN ev' = [kind |-> "will-navigate", sender |-> c, url |-> url,
               serverURL |-> serverURL, isTeamUrl |-> isTeamUrl,
               isAdminUrl |-> isAdminUrl, isChannelExportUrl |-> isChannelExportUrl,
               isCustomLoginURL |-> isCustomLoginURL, callID |-> callID,
               isCallsPopOutURL |-> isCallsPopOutURL,
               trustedPopup |-> isTrustedPopupWindow(c, popupWindow),
               inProgress |-> InProgressOf(customLogins, c),
               handlers |-> Cardinality(willNavigate[c]),
               rule |-> rule,
               preventDefault |-> (rule = "prevent"),
               flushCookiesStore |-> (rule = "inProgress")]
  /\ UNCHANGED <<customLogins, listeners, popupWindow, windows, created, regs,
                 willNavigate, didStartNavigation, windowOpenHandler,
                 renderProcessGone>>
  /\ UNCHANGED <<callerListeners, destroyed, observed>>

\* ------------------------------------------------------- did-start-navigation
\* the tracker without the branch that ends the flow
DidStartNavigationFlagNeverCleared(inProgress, serverURL, isTrustedURL, isCustomLoginURL, isInternalURL) ==
  IF serverURL = Null \/ ~isTrustedURL THEN inProgress
  ELSE IF serverURL # Null /\ isCustomLoginURL THEN TRUE
  ELSE inProgress

\* the tracker without its first guard
DidStartNavigationFlagUnguarded(inProgress, serverURL, isTrustedURL, isCustomLoginURL, isInternalURL) ==
  IF serverURL # Null /\ isCustomLoginURL THEN TRUE
  ELSE IF serverURL # Null /\ inProgress /\ isInternalURL THEN FALSE
  ELSE inProgress

\* the flag after the login-flow tracker has seen a navigation start
DidStartNavigationFlag(inProgress, serverURL, isTrustedURL, isCustomLoginURL, isInternalURL) ==
  IF serverURL = Null \/ ~isTrustedURL THEN inProgress
  ELSE IF serverURL # Null /\ isCustomLoginURL THEN TRUE
  ELSE IF serverURL # Null /\ inProgress /\ isInternalURL THEN FALSE
  ELSE inProgress

\* history: what the navigations seen so far say of the login flow.  It starts
\* ("login") at a trusted custom-login URL and is over ("none") at a trusted
\* internal URL that is not a custom-login URL, both with the server origin
\* resolved.
ObservedFlow(flow, serverURL, isTrustedURL, isCustomLoginURL, isInternalURL) ==
  IF serverURL # Null /\ isTrustedURL /\ isCustomLoginURL THEN "login"
  ELSE IF serverURL # Null /\ isTrustedURL /\ isInternalURL THEN "none"
  ELSE flow

\* the state the manager owns, as a handler finds it
Before == [customLogins |-> customLogins, listeners |-> listeners, popupWindow |-> popupWindow]

DidStartNavigation(c, url, serverURL, isTrustedURL, isCustomLoginURL, isInternalURL) ==
  /\ ev = Idle
  /\ Alive(c)
  /\ didStartNavigation[c] # {}
  /\ c \in DOMAIN customLogins
  /\ customLogins' = [customLogins EXCEPT ![c] =
        [inProgress |-> DidStartNavigationFlag(customLogins[c].inProgress, serverURL,
                                               isTrustedURL, isCustomLoginURL,
                                               isInternalURL)]]
  /\ ev' = [kind |-> "did-start-navigation", sender |-> c, url |-> url,
            serverURL |-> serverURL, isTrustedURL |-> isTrustedURL,
            isCustomLoginURL |-> isCustomLoginURL, isInternalURL |-> isInternalURL,
            inProgress |-> customLogins[c].inProgress, before |-> Before]
  /\ observed' = [observed EXCEPT ![c] =
        ObservedFlow(@, serverURL, isTrustedURL, isCustomLoginURL, isInternalURL)]
  /\ UNCHANGED <<listeners, popupWindow, windows, created, regs, willNavigate,
                 didStartNavigation, windowOpenHandler, renderProcessGone>>
  /\ UNCHANGED <<callerListeners, destroyed>>

\* --------------------------------------------------------------- new-window
\* pathname.match(/^(\/api\/v[3-4]\/public)*\/files\//)
RECURSIVE MatchPublicFiles(_)
MatchPublicFiles(pathname) ==
  \/ Len(pathname) >= 2 /\ pathname[1] = "files"
  \/ /\ Len(pathname) >= 3
     /\ pathname[1] = "api" /\ pathname[2] \in {"v3", "v4"} /\ pathname[3] = "public"
     /\ MatchPublicFiles(SubSeq(pathname, 4, Len(pathname)))

\* pathname.match(/^\/api\/v[3-4]\/image/); the segments that begin with "image"
ImageSegments == {"image", "images"}
MatchImageProxy(pathname) ==
  /\ Len(pathname) >= 3
  /\ pathname[1] = "api" /\ pathname[2] \in {"v3", "v4"} /\ pathname[3] \in ImageSegments

\* pathname.match(/^\/help\//)
MatchHelp(pathname) == Len(pathname) >= 2 /\ pathname[1] = "help"

\* this.popupWindow.webContents.getURL()
PopupURL(popup, wins) == IF popup \in DOMAIN wins THEN wins[popup].url ELSE NullURL

\* the custom-protocol check left out
NeedsProtocolDialogNever(protocol) == FALSE

\* protocol !== 'http:' && protocol !== 'https:' && protocol !== `${scheme}:`
NeedsProtocolDialog(protocol) ==
  protocol # "http:" /\ protocol # "https:" /\ protocol # Scheme \o ":"

\* the already-open check left out
PopupAlreadyOpenNever(popup, popupURL, url) == FALSE

\* this.popupWindow && this.popupWindow.webContents.getURL() === details.url
PopupAlreadyOpen(popup, popupURL, url) == popup # 0 /\ popupURL = url

\* the listener with the admin-console check after the popup rule
NewWindowRuleAdminLate(url, serverURL, isTeamUrl, isAdminUrl, popup, popupURL, isPluginUrl, isManagedResource) ==
  LET parsedURL == parseURL(url) IN
  IF parsedURL = NullURL THEN "nonUrl"
  ELSE IF parsedURL.protocol = "devtools:" THEN "devtools"
  ELSE IF NeedsProtocolDialog(parsedURL.protocol) THEN "customProtocol"
  ELSE IF ~isValidURI(url) THEN "invalidURI"
  ELSE IF serverURL = Null THEN "noServer"
  ELSE IF MatchPublicFiles(parsedURL.pathname) THEN "publicFiles"
  ELSE IF MatchImageProxy(parsedURL.pathname) THEN "imageProxy"
  ELSE IF MatchHelp(parsedURL.pathname) THEN "help"
  ELSE IF isTeamUrl THEN "team"
  ELSE IF PopupAlreadyOpen(popup, popupURL, url) THEN "popupAlreadyOpen"
  ELSE IF isPluginUrl \/ isManagedResource THEN "popup"
  ELSE IF isAdminUrl THEN "admin"
  ELSE "external"

\* the listener without the help rule
NewWindowRuleNoHelp(url, serverURL, isTeamUrl, isAdminUrl, popup, popupURL, isPluginUrl, isManagedResource) ==
  LET parsedURL == parseURL(url) IN
  IF parsedURL = NullURL THEN "nonUrl"
  ELSE IF parsedURL.protocol = "devtools:" THEN "devtools"
  ELSE IF NeedsProtocolDialog(parsedURL.protocol) THEN "customProtocol"
  ELSE IF ~isValidURI(url) THEN "invalidURI"
  ELSE IF serverURL = Null THEN "noServer"
  ELSE IF MatchPublicFiles(parsedURL.pathname) THEN "publicFiles"
  ELSE IF MatchImageProxy(parsedURL.pathname) THEN "imageProxy"
  ELSE IF isTeamUrl THEN "team"
  ELSE IF isAdminUrl THEN "admin"
  ELSE IF PopupAlreadyOpen(popup, popupURL, url) THEN "popupAlreadyOpen"
  ELSE IF isPluginUrl \/ isManagedResource THEN "popup"
  ELSE "external"

\* the listener with the URI check ahead of the developer-tools and scheme rules
NewWindowRuleValidityFirst(url, serverURL, isTeamUrl, isAdminUrl, popup, popupURL, isPluginUrl, isManagedResource) ==
  LET parsedURL == parseURL(url) IN
  IF parsedURL = NullURL THEN "nonUrl"
  ELSE IF ~isValidURI(url) THEN "invalidURI"
  ELSE IF parsedURL.protocol = "devtools:" THEN "devtools"
  ELSE IF NeedsProtocolDialog(parsedURL.protocol) THEN "customProtocol"
  ELSE IF serverURL = Null THEN "noServer"
  ELSE IF MatchPublicFiles(parsedURL.pathname) THEN "publicFiles"
  ELSE IF MatchImageProxy(parsedURL.pathname) THEN "imageProxy"
  ELSE IF MatchHelp(parsedURL.pathname) THEN "help"
  ELSE IF isTeamUrl THEN "team"
  ELSE IF isAdminUrl THEN "admin"
  ELSE IF PopupAlreadyOpen(popup, popupURL, url) THEN "popupAlreadyOpen"
  ELSE IF isPluginUrl \/ isManagedResource THEN "popup"
  ELSE "external"

\* the rule of the new-window listener that decides a request: in order, first match wins
NewWindowRule(url, serverURL, isTeamUrl, isAdminUrl, popup, popupURL, isPluginUrl, isManagedResource) ==
  LET parsedURL == parseURL(url) IN
  IF parsedURL = NullURL THEN "nonUrl"
  ELSE IF parsedURL.protocol = "devtools:" THEN "devtools"
  ELSE IF NeedsProtocolDialog(parsedURL.protocol) THEN "customProtocol"
  ELSE IF ~isValidURI(url) THEN "invalidURI"
  ELSE IF serverURL = Null THEN "noServer"
  ELSE IF MatchPublicFiles(parsedURL.pathname) THEN "publicFiles"
  ELSE IF MatchImageProxy(parsedURL.pathname) THEN "imageProxy"
  ELSE IF MatchHelp(parsedURL.pathname) THEN "help"
  ELSE IF isTeamUrl THEN "team"
  ELSE IF isAdminUrl THEN "admin"
  ELSE IF PopupAlreadyOpen(popup, popupURL, url) THEN "popupAlreadyOpen"
  ELSE IF isPluginUrl \/ isManagedResource THEN "popup"
  ELSE "external"

\* the rules that end in shell.openExternal(details.url)
OpenExternalRules == {"invalidURI", "noServer", "publicFiles", "imageProxy", "help", "external"}

\* the popup rule without its guard
CreatesPopupWindowAlways(popup) == TRUE

\* if (!this.popupWindow): the popup rule creates a window
CreatesPopupWindow(popup) == popup = 0

\* every URL loaded with the default user agent
LoadUserAgentDefault(isManagedResource) == "default"

\* the user agent the popup rule loads the URL with
LoadUserAgent(isManagedResource) ==
  IF isManagedResource THEN "default" ELSE "composeUserAgent"

\* a popup rule that loads nothing into the popup
LoadedURLKept(current, url) == current

\* this.popupWindow.loadURL(details.url, ...): the URL the popup shows afterwards
LoadedURL(current, url) == url

\* the window-open handler installed by registration of web contents c
NewWindow(c, url, serverURL, isTeamUrl, isAdminUrl, isPluginUrl, isManagedResource) ==
  /\ ev = Idle
  /\ Alive(c)
  /\ windowOpenHandler[c] \notin {NoHandler, DenyNewWindowHandler}
  /\ LET rule == NewWindowRule(url, serverURL, isTeamUrl, isAdminUrl,
                               popupWindow, PopupURL(popupWindow, windows),
                               isPluginUrl, isManagedResource)
         create == rule = "popup" /\ CreatesPopupWindow(popupWindow)
         w == IF create THEN created + 1 ELSE popupWindow
     IN /\ create => created < MaxPopups
        /\ created' = IF create THEN created + 1 ELSE created
        /\ popupWindow' = IF rule = "popup" THEN w ELSE popupWindow
        /\ windows' =
             IF rule # "popup" THEN windows
             ELSE IF create
               THEN Put(windows, w,
                        [url |-> LoadedURL(NullURL, url), shows |-> 0, readyToShow |-> TRUE])
             ELSE IF w \in DOMAIN windows
               THEN [windows EXCEPT ![w].url = LoadedURL(@, url)]
             ELSE windows
        /\ windowOpenHandler' =
             IF create THEN [windowOpenHandler EXCEPT ![PopupContents(w)] = DenyNewWindowHandler]
             ELSE windowOpenHandler
        /\ ev' = [kind |-> "new-window", webContentsId |-> c, url |-> url,
                  serverURL |-> serverURL,
                  isTeamUrl |-> isTeamUrl, isAdminUrl |-> isAdminUrl,
                  isPluginUrl |-> isPluginUrl, isManagedResource |-> isManagedResource,
                  popupWindow |-> popupWindow,
                  popupURL |-> PopupURL(popupWindow, windows),
                  windows |-> DOMAIN windows,
                  rule |-> rule,
                  action |-> IF rule = "devtools" THEN "allow" ELSE "deny",
                  handleDialogEvent |-> (rule = "customProtocol"),
                  openExternal |-> (rule \in OpenExternalRules),
                  showMainWindow |-> (rule = "team"),
                  createdWindow |-> IF create THEN w ELSE 0,
                  loadURL |-> IF rule = "popup" THEN LoadUserAgent(isManagedResource)
                              ELSE "none"]
  /\ UNCHANGED <<customLogins, listeners, regs, willNavigate, didStartNavigation,
                 renderProcessGone>>
  /\ UNCHANGED <<callerListeners, destroyed, observed>>

\* denyNewWindow, the window-open handler of the popup's own web contents
DenyNewWindow(c, url) ==
  /\ ev = Idle
  /\ Alive(c)
  /\ windowOpenHandler[c] = DenyNewWindowHandler
  /\ ev' = [kind |-> "denyNewWindow", webContentsId |-> c, url |-> url,
            action |-> "deny"]
  /\ UNCHANGED <<customLogins, listeners, popupWindow, windows, created, regs,
                 willNavigate, didStartNavigation, windowOpenHandler,
                 renderProcessGone>>
  /\ UNCHANGED <<callerListeners, destroyed, observed>>

\* ------------------------------------------------------- the popup's signals
\* the handler attached with on('ready-to-show') instead: it stays attached
OnAfterRun(pending) == pending

\* once('ready-to-show', ...): the handler is removed when it has run
OnceAfterRun(pending) == FALSE

\* the host signals ready-to-show for window w; the handler, when it is still
\* attached, runs this.popupWindow!.show()
ReadyToShow(w) ==
  /\ ev = Idle
  /\ w \in DOMAIN windows
  /\ windows[w].readyToShow /\ popupWindow \in DOMAIN windows
       => windows[popupWindow].shows < MaxShows
  /\ windows' = IF ~windows[w].readyToShow THEN windows
                ELSE [v \in DOMAIN windows |->
                        [windows[v] EXCEPT !.readyToShow = IF v = w THEN OnceAfterRun(@) ELSE @,
                                           !.shows = IF v = popupWindow THEN @ + 1 ELSE @]]
  /\ ev' = [kind |-> "ready-to-show", window |-> w, popupWindow |-> popupWindow,
            handled |-> windows[w].readyToShow]
  /\ UNCHANGED <<customLogins, listeners, popupWindow, created, regs, willNavigate,
                 didStartNavigation, windowOpenHandler, renderProcessGone>>
  /\ UNCHANGED <<callerListeners, destroyed, observed>>

\* the popup follows a redirect or a link of the page it shows
PopupNavigated(w, url) ==
  /\ ev = Idle
  /\ w \in DOMAIN windows
  /\ windows[w].url # url
  /\ windows' = [windows EXCEPT ![w].url = url]
  /\ UNCHANGED <<customLogins, listeners, popupWindow, created, regs, willNavigate,
                 didStartNavigation, windowOpenHandler, renderProcessGone, ev>>
  /\ UNCHANGED <<callerListeners, destroyed, observed>>

\* the user closes window w: the host destroys the window and its web contents
\* (and with it the handlers attached there), once('closed') clears the reference
\* the closed handler that leaves the reference as it is
ReferenceAfterClosedKept(popup) == popup

\* once('closed', ...): this.popupWindow = undefined
ReferenceAfterClosed(popup) == 0

PopupClosed(w) ==
  /\ ev = Idle
  /\ w \in DOMAIN windows
  /\ windows' = [v \in DOMAIN windows \ {w} |-> windows[v]]
  /\ popupWindow' = ReferenceAfterClosed(popupWindow)
  /\ willNavigate' = [willNavigate EXCEPT ![PopupContents(w)] = {}]
  /\ didStartNavigation' = [didStartNavigation EXCEPT ![PopupContents(w)] = {}]
  /\ windowOpenHandler' = [windowOpenHandler EXCEPT ![PopupContents(w)] = NoHandler]
  /\ renderProcessGone' = [renderProcessGone EXCEPT ![PopupContents(w)] = {}]
  /\ ev' = [kind |-> "closed", window |-> w, popupWindow |-> popupWindow]
  /\ UNCHANGED <<customLogins, listeners, created, regs>>
  /\ UNCHANGED <<callerListeners, destroyed, observed>>

\* ------------------------------------------------ registration and teardown
\* contents.removeListener(name, handler) on the handlers attached under name
removeListener(attached, handler) == attached \ {handler}

\* the closure removeWebContentsListeners of registration k of web contents c:
\* the handlers attached to c once it has run.  removeListener throws when the
\* host has destroyed the web contents; the closure catches and logs that.
DetachedBy(attached, c, k) == IF Alive(c) THEN removeListener(attached, k) ELSE attached

\* this.listeners after the closure of web contents c has run: the closure
\* detaches the handlers and leaves the map as it is
ListenersAfterDetach(registered, c) == registered

\* the closure that also drops the content session
CustomLoginsAfterDetachPurged(logins, c) == [i \in DOMAIN logins \ {c} |-> logins[i]]

\* this.customLogins after the closure of web contents c has run: untouched
CustomLoginsAfterDetach(logins, c) == logins

\* addMattermostViewEventListeners registers the web contents of a view with the
\* handlers of the view (title, favicon, target URL, did-navigate) as addListeners
\* and removeListeners; any other web contents is registered without them
HasCallerListeners(c) == c \in Views

\* removeListeners?.(contents) in the closure: the caller's handlers attached to
\* c once it has run (removeListener takes away one attachment of a handler)
CallerDetachedBy(count, c) ==
  IF Alive(c) /\ HasCallerListeners(c) /\ count > 0 THEN count - 1 ELSE count

\* the caller's handlers attached once n closures of c have run
RECURSIVE CallerDetachedTimes(_, _, _)
CallerDetachedTimes(count, c, n) ==
  IF n = 0 THEN count ELSE CallerDetachedTimes(CallerDetachedBy(count, c), c, n - 1)

\* the closure without its try/catch: what removeListener throws leaves it
PropagatesUncaught(threw) == threw

\* try { ... } catch (e) { log.error(...) }: nothing thrown leaves the closure
Propagates(threw) == FALSE

\* the registration that never calls the closure of the registration before it
InvokesPreviousNever(previous) == FALSE

\* if (this.listeners[contents.id]) this.removeWebContentsListeners(contents.id)
InvokesPrevious(previous) == previous # 0

\* removeWebContentsListeners(id)
RemoveWebContentsListeners(c) ==
  /\ ev = Idle
  /\ LET invoked == c \in DOMAIN listeners
     IN /\ willNavigate' = [willNavigate EXCEPT ![c] =
              IF invoked THEN DetachedBy(@, c, listeners[c]) ELSE @]
        /\ didStartNavigation' = [didStartNavigation EXCEPT ![c] =
              IF invoked THEN DetachedBy(@, c, listeners[c]) ELSE @]
        /\ callerListeners' = [callerListeners EXCEPT ![c] =
              IF invoked THEN CallerDetachedBy(@, c) ELSE @]
        /\ listeners' = IF invoked THEN ListenersAfterDetach(listeners, c) ELSE listeners
        /\ customLogins' = IF invoked THEN CustomLoginsAfterDetach(customLogins, c)
                           ELSE customLogins
        /\ ev' = [kind |-> "removeWebContentsListeners", id |-> c,
                  invoked |-> invoked,
                  caught |-> (invoked /\ ~Alive(c)),
                  propagated |-> Propagates(invoked /\ ~Alive(c)),
                  before |-> Before]
  /\ UNCHANGED <<popupWindow, windows, created, regs, windowOpenHandler,
                 renderProcessGone, destroyed, observed>>

\* addWebContentsEventListeners(contents): k is the new registration
AddWebContentsEventListeners(c) ==
  /\ ev = Idle
  /\ Alive(c)
  /\ regs < MaxRegs
  /\ LET k == regs + 1
         previous == IF c \in DOMAIN listeners THEN listeners[c] ELSE 0
     IN /\ regs' = k
        /\ customLogins' = Put(customLogins, c, [inProgress |-> FALSE])
        /\ willNavigate' = [willNavigate EXCEPT ![c] =
              (IF InvokesPrevious(previous) THEN DetachedBy(@, c, previous) ELSE @) \cup {k}]
        /\ didStartNavigation' = [didStartNavigation EXCEPT ![c] =
              (IF InvokesPrevious(previous) THEN DetachedBy(@, c, previous) ELSE @) \cup {k}]
        /\ windowOpenHandler' = [windowOpenHandler EXCEPT ![c] = k]
        /\ callerListeners' = [callerListeners EXCEPT ![c] =
              (IF InvokesPrevious(previous) THEN CallerDetachedBy(@, c) ELSE @)
              + (IF HasCallerListeners(c) THEN 1 ELSE 0)]
        /\ listeners' = Put(listeners, c, k)
        /\ renderProcessGone' = [renderProcessGone EXCEPT ![c] = @ \cup {k}]
        /\ observed' = [observed EXCEPT ![c] = "none"]
        /\ ev' = [kind |-> "addWebContentsEventListeners", id |-> c,
                  previous |-> previous, handlers |-> willNavigate[c],
                  before |-> Before]
  /\ UNCHANGED <<popupWindow, windows, created, destroyed>>

\* the render process of c is gone: every pending once-handler runs the closure
\* of its own registration.  tornDown: the host has torn the view down by the
\* time they run, so that removeListener throws in each of them and the
\* handlers are gone with the web contents.
RenderProcessGone(c, reason, tornDown) ==
  /\ ev = Idle
  /\ Alive(c)
  /\ renderProcessGone[c] # {}
  /\ tornDown => c \in Views
  /\ willNavigate' = [willNavigate EXCEPT ![c] =
        IF tornDown THEN {} ELSE @ \ renderProcessGone[c]]
  /\ didStartNavigation' = [didStartNavigation EXCEPT ![c] =
        IF tornDown THEN {} ELSE @ \ renderProcessGone[c]]
  /\ callerListeners' = [callerListeners EXCEPT ![c] =
        IF tornDown THEN 0
        ELSE CallerDetachedTimes(@, c, Cardinality(renderProcessGone[c]))]
  /\ windowOpenHandler' = IF tornDown THEN [windowOpenHandler EXCEPT ![c] = NoHandler]
                          ELSE windowOpenHandler
  /\ renderProcessGone' = [renderProcessGone EXCEPT ![c] = {}]
  /\ destroyed' = IF tornDown THEN destroyed \cup {c} ELSE destroyed
  /\ listeners' = ListenersAfterDetach(listeners, c)
  /\ customLogins' = CustomLoginsAfterDetach(customLogins, c)
  /\ ev' = [kind |-> "render-process-gone", id |-> c, reason |-> reason,
            pending |-> Cardinality(renderProcessGone[c]),
            caught |-> tornDown, propagated |-> Propagates(tornDown),
            before |-> Before]
  /\ UNCHANGED <<popupWindow, windows, created, regs, observed>>

\* the host consumes the result of the handler that ran
HostReturn ==
  /\ ev # Idle
  /\ ev' = Idle
  /\ UNCHANGED <<customLogins, listeners, popupWindow, windows, created, regs,
                 willNavigate, didStartNavigation, windowOpenHandler,
                 renderProcessGone>>
  /\ UNCHANGED <<callerListeners, destroyed, observed>>

\* one event at a time: the host dispatches an event only when the handler
\* before it has returned
Next ==
  \/ /\ ev = Idle
     /\ \E c \in Contents :
          /\ willNavigate[c] # {}
          /\ \E url \in NavURLs, serverURL \in {Null, Server}, isTeamUrl \in BOOLEAN,
                isAdminUrl \in BOOLEAN, isChannelExportUrl \in BOOLEAN,
                isCustomLoginURL \in BOOLEAN, callID \in {Null, "call"},
                isCallsPopOutURL \in BOOLEAN :
               WillNavigate(c, url, serverURL, isTeamUrl, isAdminUrl, isChannelExportUrl,
                            isCustomLoginURL, callID, isCallsPopOutURL)
  \/ /\ ev = Idle
     /\ \E c \in Contents :
          /\ didStartNavigation[c] # {}
          /\ \E url \in NavURLs, serverURL \in {Null, Server}, isTrustedURL \in BOOLEAN,
                isCustomLoginURL \in BOOLEAN, isInternalURL \in BOOLEAN :
               DidStartNavigation(c, url, serverURL, isTrustedURL, isCustomLoginURL,
                                  isInternalURL)
  \/ /\ ev = Idle
     /\ \E c \in Contents :
          /\ windowOpenHandler[c] \notin {NoHandler, DenyNewWindowHandler}
          /\ \E url \in URLs \cup {BadURL}, serverURL \in {Null, Server},
                isTeamUrl \in BOOLEAN, isAdminUrl \in BOOLEAN,
                isPluginUrl \in BOOLEAN, isManagedResource \in BOOLEAN :
               NewWindow(c, url, serverURL, isTeamUrl, isAdminUrl, isPluginUrl,
                         isManagedResource)
  \/ /\ ev = Idle
     /\ \E c \in Contents, url \in NavURLs : DenyNewWindow(c, url)
  \/ /\ ev = Idle
     /\ \E c \in Contents : AddWebContentsEventListeners(c)
  \/ /\ ev = Idle
     /\ \E c \in Contents : RemoveWebContentsListeners(c)
  \/ /\ ev = Idle
     /\ \E c \in Contents, reason \in {"clean-exit", "crashed"}, tornDown \in BOOLEAN :
          RenderProcessGone(c, reason, tornDown)
  \/ /\ ev = Idle
     /\ \E w \in WindowIds : ReadyToShow(w)
  \/ /\ ev = Idle
     /\ \E w \in WindowIds, url \in PageURLs : PopupNavigated(w, url)
  \/ /\ ev = Idle
     /\ \E w \in WindowIds : PopupClosed(w)
  \/ HostReturn

Spec == Init /\ [][Next]_vars

\* ================================================================== claims
WillNavigated == ev.kind = "will-navigate"
DidStarted == ev.kind = "did-start-navigation"
NewWindowed == ev.kind = "new-window"

\* what a new-window request left alone: the popup windows and the shared reference
PopupUntouched == DOMAIN windows = ev.windows /\ popupWindow = ev.popupWindow
NoPopupEffect == ev.createdWindow = 0 /\ ev.loadURL = "none" /\ PopupUntouched
NoWindowEffect == NoPopupEffect /\ ~ev.openExternal /\ ~ev.showMainWindow
                  /\ ~ev.handleDialogEvent

\* C1: at most one popup window is created and not yet closed, and the new-window
\* listener creates one only when the shared popup reference is empty.
C1_AtMostOnePopup ==
  /\ Cardinality(DOMAIN windows) <= 1
  /\ (NewWindowed /\ ev.createdWindow # 0) => ev.popupWindow = 0

\* a popup request arrives while the second popup of the run is open
C1_Witness ==
  /\ NewWindowed /\ ev.rule = "popup" /\ ev.popupWindow # 0
  /\ created = 2 /\ Cardinality(DOMAIN windows) = 1

\* C2: with the server origin resolved, a will-navigate to a team URL of that
\* server is never cancelled, whatever the flag, the popup and the call.
C2_TeamUrlNeverCancelled ==
  (WillNavigated /\ ev.serverURL # Null /\ ev.isTeamUrl) => ~ev.preventDefault

\* a team URL is the only reason the navigation goes through, while a popup is open
C2_Witness ==
  /\ WillNavigated /\ ev.serverURL # Null /\ ev.isTeamUrl
  /\ ~ev.isAdminUrl /\ ~ev.trustedPopup /\ ~ev.isChannelExportUrl
  /\ ~ev.isCustomLoginURL /\ ev.url.protocol # "mailto:" /\ ~ev.inProgress
  /\ ev.callID = Null /\ popupWindow # 0

\* the new-window requests that reach the admin-console check of the listener
ReachesAdminCheck ==
  /\ NewWindowed
  /\ ev.url # BadURL
  /\ ev.url.protocol \in {"http:", "https:", Scheme \o ":"}
  /\ isValidURI(ev.url)
  /\ ev.serverURL # Null
  /\ ~MatchPublicFiles(ev.url.pathname)
  /\ ~MatchImageProxy(ev.url.pathname)
  /\ ~MatchHelp(ev.url.pathname)
  /\ ~ev.isTeamUrl

\* C3 as stated: with the origin resolved, a will-navigate to an admin-console URL
\* is allowed, and every window-open request for a URL classified as the admin
\* console returns deny with no side effect.
C3_Original ==
  /\ (WillNavigated /\ ev.serverURL # Null /\ ev.isAdminUrl) => ~ev.preventDefault
  /\ (NewWindowed /\ ev.serverURL # Null /\ ev.isAdminUrl)
        => (ev.action = "deny" /\ NoWindowEffect)

\* C3 (amended): with the origin resolved, a will-navigate to an admin-console URL
\* is allowed, and a window-open request for an admin-console URL that no earlier
\* rule of the listener takes (the URL parses, is http, https or custom scheme, is
\* a valid URI, matches none of the public-file, image-proxy or help patterns and
\* is not a team URL) returns deny with no side effect.
C3_AdminConsole ==
  /\ (WillNavigated /\ ev.serverURL # Null /\ ev.isAdminUrl) => ~ev.preventDefault
  /\ (ReachesAdminCheck /\ ev.isAdminUrl) => (ev.action = "deny" /\ NoWindowEffect)

\* an admin-console URL that is also a plugin URL is requested while no popup exists
C3_Witness ==
  /\ ReachesAdminCheck /\ ev.isAdminUrl /\ ev.isPluginUrl /\ ev.popupWindow = 0

\* C4 as stated: with the flag set, a did-start-navigation to an internal URL of
\* the server (other than its custom-login URL) clears the flag, and one to the
\* custom-login URL leaves it set.
C4_Original ==
  /\ (DidStarted /\ ev.inProgress /\ ev.serverURL # Null /\ ev.isInternalURL
        /\ ~ev.isCustomLoginURL) => ~customLogins[ev.sender].inProgress
  /\ (DidStarted /\ ev.inProgress /\ ev.serverURL # Null /\ ev.isCustomLoginURL)
        => customLogins[ev.sender].inProgress

\* C4 (amended): with the flag set, a did-start-navigation to an internal URL of
\* the server that is trusted for the server and is not its custom-login URL
\* clears the flag, and one to the custom-login URL leaves it set.
C4_LoginFlowTracker ==
  /\ (DidStarted /\ ev.inProgress /\ ev.serverURL # Null /\ ev.isTrustedURL
        /\ ev.isInternalURL /\ ~ev.isCustomLoginURL)
        => ~customLogins[ev.sender].inProgress
  /\ (DidStarted /\ ev.inProgress /\ ev.serverURL # Null /\ ev.isCustomLoginURL)
        => customLogins[ev.sender].inProgress

\* the flow in progress has just been ended by a trusted internal URL
C4_Witness ==
  /\ DidStarted /\ ev.inProgress /\ ev.serverURL # Null /\ ev.isTrustedURL
  /\ ev.isInternalURL /\ ~ev.isCustomLoginURL
  /\ ~customLogins[ev.sender].inProgress

\* C5: a window-open request for the URL the open shared popup shows returns deny,
\* creates no second popup window, leaves the shared reference unchanged and (a
\* no-op for the popup) loads nothing into it.
C5_SameUrlDenied ==
  (NewWindowed /\ ev.popupWindow # 0 /\ ev.popupURL = ev.url)
     => (ev.action = "deny" /\ NoPopupEffect)

\* the request is a plugin URL that only the already-open check keeps from the popup
C5_Witness ==
  /\ ReachesAdminCheck /\ ~ev.isAdminUrl /\ ev.isPluginUrl
  /\ ev.popupWindow # 0 /\ ev.popupURL = ev.url
  /\ ev.action = "deny" /\ popupWindow = ev.popupWindow

\* the schemes that are neither http, https nor the custom scheme
OtherScheme(url) == url # BadURL /\ url.protocol \notin {"http:", "https:", Scheme \o ":"}

\* C6 as stated: a window-open request whose scheme is neither http, https nor the
\* custom scheme never reaches popup creation and always triggers the
\* protocol-confirmation dialog.
C6_Original ==
  (NewWindowed /\ OtherScheme(ev.url)) => (ev.handleDialogEvent /\ NoPopupEffect)

\* C6 (amended): a window-open request whose scheme is neither http, https nor the
\* custom scheme never reaches popup creation and, unless the scheme is devtools
\* (which is allowed in-process), triggers the protocol-confirmation dialog and is
\* denied.
C6_OtherSchemes ==
  (NewWindowed /\ OtherScheme(ev.url))
     => /\ NoPopupEffect
        /\ ev.url.protocol # "devtools:" => (ev.handleDialogEvent /\ ev.action = "deny")
        /\ ev.url.protocol = "devtools:" => (~ev.handleDialogEvent /\ ev.action = "allow")

\* an ftp: URL classified as a plugin URL is requested with the origin resolved and
\* no popup open
C6_Witness ==
  /\ NewWindowed /\ ev.url.protocol = "ftp:" /\ ev.isPluginUrl /\ ev.serverURL # Null
  /\ ev.popupWindow = 0 /\ ev.handleDialogEvent

\* C7 as stated: with the origin resolved and no popup open, a window-open request
\* for a plugin URL creates a popup window and loads the URL with the substituted
\* user agent (a managed resource: with the default one).
C7_Original ==
  (NewWindowed /\ ev.serverURL # Null /\ ev.isPluginUrl /\ ev.popupWindow = 0)
     => /\ ev.createdWindow # 0
        /\ popupWindow = ev.createdWindow
        /\ ev.loadURL = IF ev.isManagedResource THEN "default" ELSE "composeUserAgent"

\* C7 (amended): with no popup open, a window-open request for a plugin URL that
\* no earlier rule of the listener takes (the URL parses, is http, https or custom
\* scheme, is a valid URI, the origin is resolved, the path matches none of the
\* public-file, image-proxy or help patterns, and the URL is neither a team nor an
\* admin URL) creates a popup window showing that URL; and whenever a URL is
\* loaded into the popup, it is with the default user agent for a managed
\* resource and with the substituted one for every other plugin URL.
C7_PluginPopup ==
  /\ (ReachesAdminCheck /\ ~ev.isAdminUrl /\ ev.isPluginUrl /\ ev.popupWindow = 0)
        => /\ ev.createdWindow # 0
           /\ popupWindow = ev.createdWindow
           /\ DOMAIN windows = {ev.createdWindow}
           /\ windows[popupWindow].url = ev.url
           /\ ev.loadURL # "none"
  /\ (NewWindowed /\ ev.loadURL # "none")
        => /\ ev.isPluginUrl \/ ev.isManagedResource
           /\ ev.loadURL = IF ev.isManagedResource THEN "default" ELSE "composeUserAgent"

\* a plugin URL that is no managed resource has created the popup
C7_Witness ==
  /\ NewWindowed /\ ev.isPluginUrl /\ ~ev.isManagedResource /\ ev.popupWindow = 0
  /\ ev.createdWindow # 0 /\ ev.loadURL = "composeUserAgent"
  /\ ev.url.pathname = <<"plugins", "oauth", "start">>

\* C8: will-navigate cancels the navigation exactly when none of the allow rules
\* matches.
C8_CancelledIffNoRule ==
  WillNavigated =>
    (ev.preventDefault <=>
       /\ ~(ev.serverURL # Null /\ (ev.isTeamUrl \/ ev.isAdminUrl \/ ev.trustedPopup))
       /\ ~(ev.serverURL # Null /\ ev.isChannelExportUrl)
       /\ ~(ev.serverURL # Null /\ ev.isCustomLoginURL)
       /\ ev.url.protocol # "mailto:"
       /\ ~ev.inProgress
       /\ ~(ev.serverURL # Null /\ ev.callID # Null /\ ev.isCallsPopOutURL))

\* a pop-out URL is cancelled because no call is active
C8_Witness ==
  /\ WillNavigated /\ ev.preventDefault /\ ev.serverURL # Null
  /\ ev.isCallsPopOutURL /\ ev.callID = Null

\* C9: with no server origin resolved, a will-navigate is allowed only for a
\* mailto: URL or while the flag of the view is set; anything else is cancelled,
\* the trusted popup and every classification of the URL notwithstanding.
C9_NoServerOrigin ==
  (WillNavigated /\ ev.serverURL = Null)
     => (ev.preventDefault <=> (ev.url.protocol # "mailto:" /\ ~ev.inProgress))

\* the trusted popup is refused a navigation to a URL of every class
C9_Witness ==
  /\ WillNavigated /\ ev.serverURL = Null /\ ev.trustedPopup /\ ev.preventDefault
  /\ ev.isTeamUrl /\ ev.isAdminUrl /\ ev.isChannelExportUrl /\ ev.isCustomLoginURL
  /\ ev.isCallsPopOutURL /\ ev.callID # Null

\* C10 as stated: after removeWebContentsListeners(id) on a registered view, or
\* after its render-process-gone event, the detachment callback has run and the
\* listener map holds no entry for that content identifier.
C10_Original ==
  \/ ev.kind = "removeWebContentsListeners" /\ ev.invoked
  \/ ev.kind = "render-process-gone"
  => /\ willNavigate[ev.id] = {} /\ didStartNavigation[ev.id] = {}
     /\ ev.id \notin DOMAIN listeners
\* the will-navigate rules by their conditions
Rule1 == ev.serverURL # Null /\ (ev.isTeamUrl \/ ev.isAdminUrl \/ ev.trustedPopup)
Rule2 == ev.serverURL # Null /\ ev.isChannelExportUrl
Rule3 == ev.serverURL # Null /\ ev.isCustomLoginURL
Rule4 == ev.url.protocol = "mailto:"
Rule6 == ev.serverURL # Null /\ ev.callID # Null /\ ev.isCallsPopOutURL

\* C11: from a did-start-navigation to a trusted custom-login URL seen on a view
\* whose server origin is resolved, every will-navigate of that view is allowed
\* and flushes the cookie store exactly when none of the rules 1 to 4 matches;
\* once a did-start-navigation to a trusted internal URL that is not a
\* custom-login URL has been seen, or the view has been registered again, a
\* will-navigate that matches none of the rules 1 to 4 and 6 is cancelled and
\* flushes nothing.
C11_LoginFlowOrdering ==
  WillNavigated =>
    /\ observed[ev.sender] = "login" =>
          /\ ~ev.preventDefault
          /\ ev.flushCookiesStore <=> ~(Rule1 \/ Rule2 \/ Rule3 \/ Rule4)
    /\ observed[ev.sender] = "none" /\ ~(Rule1 \/ Rule2 \/ Rule3 \/ Rule4 \/ Rule6) =>
          ev.preventDefault /\ ~ev.flushCookiesStore

C11_Witness ==
  /\ WillNavigated /\ observed[ev.sender] = "login"
  /\ ~(Rule1 \/ Rule2 \/ Rule3 \/ Rule4)
  /\ ev.flushCookiesStore /\ ~ev.preventDefault

\* C12: a did-start-navigation with no server origin, or to a destination that
\* is not trusted, leaves the in-progress flag of every view, the listener map
\* and the popup reference as they were, also when the URL classifies as a
\* custom-login or an internal URL.
C12_UntrustedStartIgnored ==
  DidStarted /\ (ev.serverURL = Null \/ ~ev.isTrustedURL) =>
    /\ customLogins = ev.before.customLogins
    /\ listeners = ev.before.listeners
    /\ popupWindow = ev.before.popupWindow

C12_Witness ==
  /\ DidStarted /\ ev.serverURL # Null /\ ~ev.isTrustedURL
  /\ ev.isInternalURL /\ ~ev.isCustomLoginURL
  /\ ev.inProgress /\ customLogins[ev.sender].inProgress

\* C13 as stated: a window-open request whose URL is unparseable or malformed
\* is opened in the external browser and denied.
C13_Original ==
  NewWindowed /\ (parseURL(ev.url) = NullURL \/ ~isValidURI(ev.url)) /\ ~OtherScheme(ev.url) =>
    ev.openExternal /\ ev.action = "deny"

\* C13: a window-open request whose URL cannot be parsed is denied before any
\* other rule and opens nothing; a request whose URL parses but is not a valid
\* URI is opened in the external browser and denied when its scheme is http,
\* https or the custom scheme, and is left to the developer-tools and
\* other-scheme rules, which open no external browser, when it is not.
C13_MalformedURLs ==
  NewWindowed =>
    /\ parseURL(ev.url) = NullURL => ev.action = "deny" /\ NoWindowEffect
    /\ parseURL(ev.url) # NullURL /\ ~isValidURI(ev.url) =>
          IF OtherScheme(ev.url)
          THEN ~ev.openExternal
          ELSE ev.openExternal /\ ev.action = "deny" /\ NoPopupEffect
               /\ ~ev.showMainWindow /\ ~ev.handleDialogEvent

C13_Witness ==
  /\ NewWindowed /\ parseURL(ev.url) = NullURL
  /\ ev.isPluginUrl /\ ev.serverURL # Null
  /\ ev.action = "deny" /\ ~ev.openExternal

\* a request that the popup rule decides: parseable, of the http, https or custom
\* scheme, a valid URI, with the server origin resolved, none of the public-file,
\* image-proxy and help patterns, neither a team nor an admin URL, not the URL
\* the open popup shows, and a plugin or managed-resource URL
PopupRequest ==
  /\ NewWindowed /\ ReachesAdminCheck /\ ~ev.isAdminUrl
  /\ ~(ev.popupWindow # 0 /\ ev.popupURL = ev.url)
  /\ (ev.isPluginUrl \/ ev.isManagedResource)

C15_Original ==
  \/ ev.kind = "removeWebContentsListeners" /\ ev.invoked
  \/ ev.kind = "render-process-gone"
  => /\ willNavigate[ev.id] = {} /\ didStartNavigation[ev.id] = {}
     /\ windowOpenHandler[ev.id] = NoHandler

\* C16: when render-process-gone has been handled, for whatever reason and
\* however many times the view was registered, no will-navigate handler, no
\* did-start-navigation handler and no handler of the caller is attached to the
\* view, and nothing thrown while detaching has left the handler.
C16_GoneDetaches ==
  ev.kind = "render-process-gone" =>
    /\ willNavigate[ev.id] = {} /\ didStartNavigation[ev.id] = {}
    /\ callerListeners[ev.id] = 0
    /\ ~ev.propagated

C16_Witness ==
  /\ ev.kind = "render-process-gone" /\ ev.reason = "crashed"
  /\ ev.pending = 2 /\ ev.caught /\ ~ev.propagated
  /\ HasCallerListeners(ev.id)

\* C17: a new-window request creates a popup window, or loads a URL into one,
\* only when it is parseable, of the http, https or custom scheme, a valid URI,
\* with the server origin resolved, none of the public-file, image-proxy and help
\* patterns, neither a team nor an admin URL, not the URL the open popup shows,
\* and a plugin or managed-resource URL; every such request is loaded into the
\* popup, returns deny and calls neither the external browser nor showMainWindow.
C17_PopupOnlyByPopupRequest ==
  NewWindowed =>
    /\ ev.createdWindow # 0 \/ ev.loadURL # "none" \/ ~PopupUntouched => PopupRequest
    /\ PopupRequest =>
          /\ ev.loadURL # "none" /\ windows[popupWindow].url = ev.url
          /\ ev.action = "deny" /\ ~ev.openExternal /\ ~ev.showMainWindow

C17_Witness ==
  /\ PopupRequest /\ ev.isManagedResource /\ ~ev.isPluginUrl
  /\ ev.url.protocol = Scheme \o ":"
  /\ ev.createdWindow # 0 /\ windows[ev.createdWindow].url = ev.url

\* C18 as stated: every plugin or managed-resource request that arrives while a
\* popup is open at another URL is loaded into that popup, creates no window,
\* opens no external browser and returns deny.
C18_Original ==
  /\ NewWindowed /\ (ev.isPluginUrl \/ ev.isManagedResource)
  /\ ev.popupWindow # 0 /\ ev.popupURL # ev.url
  => /\ ev.createdWindow = 0 /\ ~ev.openExternal
     /\ ev.loadURL # "none" /\ ev.action = "deny"

\* C18: a plugin or managed-resource request that no earlier rule of the
\* listener takes and that arrives while a popup is open at another URL creates
\* no window and opens no external browser: the URL is loaded into the popup
\* that is open, which stays the shared reference, and the request returns deny.
C18_LoadIntoOpenPopup ==
  PopupRequest /\ ev.popupWindow # 0 =>
    /\ ev.createdWindow = 0 /\ DOMAIN windows = ev.windows
    /\ popupWindow = ev.popupWindow
    /\ ev.loadURL # "none" /\ windows[popupWindow].url = ev.url
    /\ ~ev.openExternal /\ ~ev.showMainWindow /\ ev.action = "deny"

C18_Witness ==
  /\ PopupRequest /\ ev.popupWindow # 0 /\ ev.popupURL # ev.url
  /\ ev.createdWindow = 0 /\ windows[ev.popupWindow].url = ev.url
  /\ windows[ev.popupWindow].shows = 1

\* C19: whatever registrations, removals and render-process-gone events a web
\* contents has gone through, it has at most one will-navigate and at most one
\* did-start-navigation handler attached; a registration of a web contents that
\* was registered before detaches the handlers of that registration and leaves
\* its own handlers as the only ones.
C19_AtMostOneHandler ==
  /\ \A c \in Contents : /\ Cardinality(willNavigate[c]) <= 1
                         /\ Cardinality(didStartNavigation[c]) <= 1
  /\ ev.kind = "addWebContentsEventListeners" /\ ev.previous # 0 =>
        /\ willNavigate[ev.id] = {listeners[ev.id]}
        /\ didStartNavigation[ev.id] = {listeners[ev.id]}
        /\ ev.previous # listeners[ev.id]

C19_Witness ==
  /\ ev.kind = "addWebContentsEventListeners"
  /\ ev.previous # 0 /\ ev.handlers = {ev.previous}
  /\ willNavigate[ev.id] = {listeners[ev.id]}

\* C20: every web contents with a will-navigate or a did-start-navigation
\* handler attached, and every one that was ever registered, has a content
\* session; a registration leaves the session with inProgress false, also when
\* a login was in progress; removeWebContentsListeners and render-process-gone
\* leave every session, and its inProgress, as it was.
C20_ContentSession ==
  /\ \A c \in Contents :
        willNavigate[c] # {} \/ didStartNavigation[c] # {} \/ c \in DOMAIN listeners
          => c \in DOMAIN customLogins
  /\ ev.kind = "addWebContentsEventListeners" => ~customLogins[ev.id].inProgress
  /\ ev.kind \in {"removeWebContentsListeners", "render-process-gone"} =>
        customLogins = ev.before.customLogins

C20_Witness ==
  /\ ev.kind = "render-process-gone"
  /\ ev.before.customLogins[ev.id].inProgress /\ customLogins[ev.id].inProgress
  /\ willNavigate[ev.id] = {}

====
